---- MODULE Spec2Model ----
(***************************************************************************)
(* Model of rail_baron.py: the region/city table built by                  *)
(* DestinationDataSource.from_csv, the dice model, the payoff table and    *)
(* the request dispatch of RailBaronApp.__call__.                          *)
(*                                                                         *)
(* A Python string is a sequence of one-character strings, so that         *)
(* str.strip, int() and the ordering used by sorted() are computed and     *)
(* not assumed.                                                            *)
(***************************************************************************)
EXTENDS Integers, Sequences, FiniteSets, TLC

VARIABLES pc, stream, payoff_json, data_maps, payoff_dict, error, result

vars == <<pc, stream, payoff_json, data_maps, payoff_dict, error, result>>

(* ---------------------------- bounds ----------------------------------- *)

\* longest record sequence drawn for the construction specification
MaxRows == 3

\* largest number of source cities in a drawn payoff source
MaxSources == 2

(* ---------------------------- strings ---------------------------------- *)

Whitespace == {" ", "\t"}

Digits == <<"0", "1", "2", "3", "4", "5", "6", "7", "8", "9">>

\* code point of the characters that occur in the modelled data
Ord(c) ==
    CASE c = "\t" -> 9   [] c = " " -> 32  [] c = "+" -> 43  [] c = "-" -> 45
      [] c = "." -> 46
      [] c = "0" -> 48   [] c = "1" -> 49  [] c = "2" -> 50  [] c = "3" -> 51
      [] c = "4" -> 52   [] c = "5" -> 53  [] c = "6" -> 54  [] c = "7" -> 55
      [] c = "8" -> 56   [] c = "9" -> 57
      [] c = "A" -> 65   [] c = "B" -> 66  [] c = "C" -> 67  [] c = "E" -> 69
      [] c = "W" -> 87
      [] c = "a" -> 97   [] c = "b" -> 98  [] c = "c" -> 99  [] c = "d" -> 100
      [] c = "e" -> 101  [] c = "g" -> 103 [] c = "h" -> 104 [] c = "i" -> 105
      [] c = "l" -> 108  [] c = "n" -> 110 [] c = "o" -> 111 [] c = "r" -> 114
      [] c = "s" -> 115  [] c = "t" -> 116 [] c = "v" -> 118 [] c = "x" -> 120
      [] c = "y" -> 121

RECURSIVE lstrip(_)
lstrip(s) ==
    IF s # <<>> /\ Head(s) \in Whitespace THEN lstrip(Tail(s)) ELSE s

RECURSIVE rstrip(_)
rstrip(s) ==
    IF s # <<>> /\ s[Len(s)] \in Whitespace
    THEN rstrip(SubSeq(s, 1, Len(s) - 1))
    ELSE s

\* str.strip() with no argument
strip(s) == rstrip(lstrip(s))

\* s < t for two strings, as compared by sorted()
RECURSIVE StrLess(_, _)
StrLess(s, t) ==
    IF t = <<>> THEN FALSE
    ELSE IF s = <<>> THEN TRUE
    ELSE IF Ord(Head(s)) # Ord(Head(t)) THEN Ord(Head(s)) < Ord(Head(t))
    ELSE StrLess(Tail(s), Tail(t))

DigitValue(c) == (CHOOSE i \in 1..10 : Digits[i] = c) - 1

IsDigit(c) == \E i \in 1..10 : Digits[i] = c

RECURSIVE DecimalValue(_)
DecimalValue(s) ==
    IF s = <<>> THEN 0
    ELSE 10 * DecimalValue(SubSeq(s, 1, Len(s) - 1)) + DigitValue(s[Len(s)])

Unsigned(s) == IF s # <<>> /\ Head(s) \in {"+", "-"} THEN Tail(s) ELSE s

\* int(s) accepts surrounding whitespace, one optional sign and decimal digits
IsIntLiteral(s) ==
    LET body == Unsigned(strip(s))
    IN  body # <<>> /\ \A i \in 1..Len(body) : IsDigit(body[i])

int(s) ==
    LET t == strip(s)
    IN  IF t # <<>> /\ Head(t) = "-"
        THEN 0 - DecimalValue(Unsigned(t))
        ELSE DecimalValue(Unsigned(t))

(* ---------------------------- names ------------------------------------ *)

area    == <<"a", "r", "e", "a">>
East    == <<"E", "a", "s", "t">>
West    == <<"W", "e", "s", "t">>
Boston  == <<"B", "o", "s", "t", "o", "n">>
Chicago == <<"C", "h", "i", "c", "a", "g", "o">>
Albany  == <<"A", "l", "b", "a", "n", "y">>
odd     == <<"o", "d", "d">>
even    == <<"e", "v", "e", "n">>

(* ---------------------------- dice ------------------------------------- *)

DiceRoll(odd_or_even, number) ==
    [odd_or_even |-> odd_or_even, number |-> number]

\* random.randrange(start, stop): start <= n < stop
randrange(start, stop) == start .. (stop - 1)

\* random.choice(seq)
choice(seq) == {seq[i] : i \in 1..Len(seq)}

randrange_inclusive(start, stop) == start .. stop

\* the values one call of _roll_dice can return
_roll_dice_seven_sided ==
    {DiceRoll(p, a + b) : p \in choice(<<odd, even>>),
                          a \in randrange_inclusive(1, 7),
                          b \in randrange_inclusive(1, 7)}

_roll_dice_parity_of_sum ==
    {DiceRoll(IF (a + b) % 2 = 1 THEN odd ELSE even, a + b) :
        a \in randrange(1, 7), b \in randrange(1, 7)}

_roll_dice ==
    {DiceRoll(p, a + b) : p \in choice(<<odd, even>>),
                          a \in randrange(1, 7),
                          b \in randrange(1, 7)}

\* the 22 combinations of the dice model
AllRolls == {DiceRoll(p, n) : p \in {odd, even}, n \in 2..12}

(* ---------------------------- records ---------------------------------- *)

Fields == {"region", "odd/even", "number", "name"}

\* a cell of a csv.DictReader row: a string, or None for a short row
Cell(s) == [present |-> TRUE, text |-> s]
None    == [present |-> FALSE, text |-> <<>>]

Row(region, odd_or_even, number, name) ==
    [f \in Fields |->
        CASE f = "region"   -> region
          [] f = "odd/even" -> odd_or_even
          [] f = "number"   -> number
          [] f = "name"     -> name]

Record(region, odd_or_even, number, name) ==
    Row(Cell(region), Cell(odd_or_even), Cell(number), Cell(name))

EmptyDict == <<>>

\* collections.defaultdict(lambda: {}): the value made for a missing key
DefaultFactoryPlaceholder == [r \in AllRolls |-> <<"x">>]

DefaultFactory == EmptyDict

\* d[k] on the defaultdict: the value, and the dict after the access
DefaultDictGet(d, k) ==
    IF k \in DOMAIN d
    THEN [dict |-> d, value |-> d[k]]
    ELSE [dict |-> d @@ (k :> DefaultFactory), value |-> DefaultFactory]

\* d[k] = v on a plain dict
SetItemKeepFirst(d, k, v) == IF k \in DOMAIN d THEN d ELSE d @@ (k :> v)

SetItem(d, k, v) == (k :> v) @@ d

\* the exception one loop iteration of from_csv raises on row, "" if none,
\* in the order Python evaluates lines 40-41
RowError(fieldnames, row) ==
    IF "region" \notin fieldnames THEN "KeyError"
    ELSE IF ~row["region"].present THEN "AttributeError"
    ELSE IF "name" \notin fieldnames THEN "KeyError"
    ELSE IF ~row["name"].present THEN "AttributeError"
    ELSE IF "odd/even" \notin fieldnames THEN "KeyError"
    ELSE IF ~row["odd/even"].present THEN "AttributeError"
    ELSE IF "number" \notin fieldnames THEN "KeyError"
    ELSE IF ~row["number"].present THEN "TypeError"
    ELSE IF ~IsIntLiteral(row["number"].text) THEN "ValueError"
    ELSE ""

\* the key line 41 stores a well-formed row under
RowKey(row) ==
    DiceRoll(strip(row["odd/even"].text), int(row["number"].text))

RowRegion(row) == strip(row["region"].text)

RowName(row) == strip(row["name"].text)

\* the body of the loop of from_csv for one well-formed row
InsertRow(maps, row) ==
    LET got == DefaultDictGet(maps, RowRegion(row))
    IN  SetItem(got.dict, RowRegion(row),
                SetItem(got.value, RowKey(row), RowName(row)))

\* the loop of from_csv over the first n rows: the exception raised ("" if
\* none) and the table built so far
RECURSIVE from_csv_loop(_, _)
from_csv_loop(s, n) ==
    IF n = 0 THEN [raised |-> "", data_maps |-> EmptyDict]
    ELSE LET before == from_csv_loop(s, n - 1)
         IN  IF before.raised # "" THEN before
             ELSE IF RowError(s.fieldnames, s.rows[n]) # ""
             THEN [raised |-> RowError(s.fieldnames, s.rows[n]),
                   data_maps |-> EmptyDict]
             ELSE [raised |-> "",
                   data_maps |-> InsertRow(before.data_maps, s.rows[n])]

\* DestinationDataSource.from_csv: the exception raised ("" if none) and the
\* table of the object returned
from_csv(s) == from_csv_loop(s, Len(s.rows))

\* PayoffDataSource.from_json: the parsed mapping is kept as it is
from_json(data) == data

(* ---------------------------- inputs ----------------------------------- *)

Stream(fieldnames, rows) == [fieldnames |-> fieldnames, rows |-> rows]

\* decimal text of a number of one or two digits
NumText(n) ==
    IF n < 10 THEN <<Digits[n + 1]>>
    ELSE <<Digits[(n \div 10) + 1], Digits[(n % 10) + 1]>>

\* the 22 combinations in the order a data file lists them
RollSeq ==
    [i \in 1..22 |-> DiceRoll(IF i <= 11 THEN odd ELSE even, ((i - 1) % 11) + 2)]

\* one record per combination for region, the names taken in turn
CoverRows(region, names) ==
    [i \in 1..22 |->
        Record(region, RollSeq[i].odd_or_even, NumText(RollSeq[i].number),
               names[(i % Len(names)) + 1])]

\* rows without the records of region for roll
RECURSIVE WithoutRoll(_, _, _)
WithoutRoll(rows, region, roll) ==
    IF rows = <<>> THEN <<>>
    ELSE IF RowRegion(Head(rows)) = region /\ RowKey(Head(rows)) = roll
         THEN WithoutRoll(Tail(rows), region, roll)
         ELSE <<Head(rows)>> \o WithoutRoll(Tail(rows), region, roll)

RoundTripStream ==
    Stream(Fields, <<Record(area, odd, <<"7">>, East),
                     Record(East, odd, <<"7">>, Boston)>>)

FullStream ==
    Stream(Fields, CoverRows(area, <<East, West>>)
                   \o CoverRows(East, <<Boston, Chicago, Albany>>))

\* a data file with one combination missing in "area" and one in "East"
HoleStream ==
    Stream(Fields,
           WithoutRoll(WithoutRoll(FullStream.rows, area, DiceRoll(even, 12)),
                       East, DiceRoll(odd, 2)))

\* a data file without any "area" record
NoAreaStream ==
    Stream(Fields, <<Record(East, odd, <<"7">>, Boston),
                     Record(East, even, <<"8">>, Chicago)>>)

SampleStreams == {RoundTripStream, FullStream, HoleStream, NoAreaStream}

\* the records the construction specification draws from
LoadRows ==
    { Record(area, odd, <<"7">>, East),
      Record(<<" ">> \o area \o <<" ">>, odd \o <<"\t">>, <<" ", "7", " ">>,
             <<" ">> \o West \o <<" ">>),
      Record(East, even, <<"0", "7">>, Chicago),
      Record(East \o <<" ">>, <<" ">> \o even, <<"+", "7">>, Albany),
      Record(East, odd, <<"1", "2">>, Boston),
      Record(area, odd, <<"x">>, East),
      Record(area, even, <<"7", ".", "5">>, West),
      Record(area, odd, <<>>, East),
      Row(Cell(East), Cell(odd), None, None),
      Row(Cell(area), None, None, None) }

HeaderChoices == {Fields} \cup {Fields \ {f} : f \in Fields}

BoundedSeq(S, n) == UNION {[1..k -> S] : k \in 0..n}

LoadStreams ==
    {Stream(fn, rows) : fn \in HeaderChoices,
                        rows \in BoundedSeq(LoadRows, MaxRows)}

Cities == {Boston, Chicago, Albany}

Amounts == {0, 800}

ExamplePayoff == (Boston :> (Chicago :> 800))

InnerDicts == {EmptyDict} \cup {(d :> a) : d \in Cities, a \in Amounts}

PayoffSources ==
    UNION {[S -> InnerDicts] : S \in {T \in SUBSET Cities :
                                         Cardinality(T) <= MaxSources}}

RegionArgs == {area, East, West}

(* ---------------------------- state ------------------------------------ *)

NoRoll == DiceRoll(<<>>, 0)

NoValue == <<>>

NoResult ==
    [op |-> "", args |-> <<>>, roll |-> NoRoll, raised |-> "",
     value |-> NoValue]

InitCommon ==
    /\ pc = "startup"
    /\ data_maps = EmptyDict
    /\ payoff_dict = EmptyDict
    /\ error = ""
    /\ result = NoResult

Init ==
    /\ InitCommon
    /\ stream \in SampleStreams
    /\ payoff_json = ExamplePayoff

InitPayoff ==
    /\ InitCommon
    /\ stream = RoundTripStream
    /\ payoff_json \in PayoffSources

InitLoad ==
    /\ InitCommon
    /\ stream \in LoadStreams
    /\ payoff_json = ExamplePayoff

(* ---------------------------- startup ---------------------------------- *)

\* __main__: both sources are built before the application is served
Main ==
    /\ pc = "startup"
    /\ LET built == from_csv(stream)
       IN  IF built.raised # ""
           THEN /\ pc' = "crashed"
                /\ error' = built.raised
                /\ UNCHANGED <<data_maps, payoff_dict>>
           ELSE /\ pc' = "serving"
                /\ error' = ""
                /\ data_maps' = built.data_maps
                /\ payoff_dict' = from_json(payoff_json)
    /\ UNCHANGED <<stream, payoff_json, result>>

(* ---------------------------- lookups ---------------------------------- *)

\* self._data_maps[region][roll]: the table after the call and the outcome
Lookup(maps, region, roll) ==
    LET got == DefaultDictGet(maps, region)
    IN  IF roll \in DOMAIN got.value
        THEN [data_maps |-> got.dict, raised |-> "", value |-> got.value[roll]]
        ELSE [data_maps |-> got.dict, raised |-> "KeyError", value |-> NoValue]

PickRegionOf(maps, roll) == Lookup(maps, area, roll)

PickCityOfArea(maps, region, roll) == Lookup(maps, area, roll)

PickCityOf(maps, region, roll) == Lookup(maps, region, roll)

\* the orders in which iterkeys() may yield the keys of a dict
KeyOrders(d) ==
    {s \in [1..Cardinality(DOMAIN d) -> DOMAIN d] :
        \A i, j \in DOMAIN s : i # j => s[i] # s[j]}

\* s with x put before its first element greater than x
RECURSIVE Insert(_, _)
Insert(x, s) ==
    IF s = <<>> THEN <<x>>
    ELSE IF StrLess(x, Head(s)) THEN <<x>> \o s
    ELSE <<Head(s)>> \o Insert(x, Tail(s))

Unsorted(s) == s

RECURSIVE sorted(_)
sorted(s) ==
    IF s = <<>> THEN <<>>
    ELSE Insert(s[Len(s)], sorted(SubSeq(s, 1, Len(s) - 1)))

GetCitiesOf(d, order) == sorted(order)

GetPayoffSymmetric(d, source_city, destination_city) ==
    IF source_city \in DOMAIN d /\ destination_city \in DOMAIN d[source_city]
    THEN [raised |-> "", value |-> d[source_city][destination_city]]
    ELSE IF destination_city \in DOMAIN d
            /\ source_city \in DOMAIN d[destination_city]
    THEN [raised |-> "", value |-> d[destination_city][source_city]]
    ELSE [raised |-> "KeyError", value |-> 0]

GetPayoffOf(d, source_city, destination_city) ==
    IF source_city \in DOMAIN d /\ destination_city \in DOMAIN d[source_city]
    THEN [raised |-> "", value |-> d[source_city][destination_city]]
    ELSE [raised |-> "KeyError", value |-> 0]

pick_region ==
    /\ pc = "serving"
    /\ \E roll \in _roll_dice :
         LET out == PickRegionOf(data_maps, roll)
         IN  /\ data_maps' = out.data_maps
             /\ result' = [op |-> "pick_region", args |-> <<>>, roll |-> roll,
                           raised |-> out.raised, value |-> out.value]
    /\ UNCHANGED <<pc, stream, payoff_json, payoff_dict, error>>

pick_city(region) ==
    /\ pc = "serving"
    /\ \E roll \in _roll_dice :
         LET out == PickCityOf(data_maps, region, roll)
         IN  /\ data_maps' = out.data_maps
             /\ result' = [op |-> "pick_city", args |-> <<region>>,
                           roll |-> roll, raised |-> out.raised,
                           value |-> out.value]
    /\ UNCHANGED <<pc, stream, payoff_json, payoff_dict, error>>

get_cities ==
    /\ pc = "serving"
    /\ \E order \in KeyOrders(payoff_dict) :
         result' = [op |-> "get_cities", args |-> <<>>, roll |-> NoRoll,
                    raised |-> "", value |-> GetCitiesOf(payoff_dict, order)]
    /\ UNCHANGED <<pc, stream, payoff_json, data_maps, payoff_dict, error>>

get_payoff(source_city, destination_city) ==
    /\ pc = "serving"
    /\ LET out == GetPayoffOf(payoff_dict, source_city, destination_city)
       IN  result' = [op |-> "get_payoff",
                      args |-> <<source_city, destination_city>>,
                      roll |-> NoRoll, raised |-> out.raised,
                      value |-> out.value]
    /\ UNCHANGED <<pc, stream, payoff_json, data_maps, payoff_dict, error>>

(* ---------------------------- requests --------------------------------- *)

Methods == {"GET", "POST"}

ArgNames == {"source_city", "destination_city"}

ArgChoices == UNION {[A -> Cities] : A \in SUBSET ArgNames}

\* a request, by the rule of the URL map its path fits ("" if none)
Request(method, rule, region, args) ==
    [method |-> method, rule |-> rule, region |-> region, args |-> args]

Requests ==
    {Request(m, r, <<>>, EmptyDict) : m \in Methods,
                                      r \in {"", "/", "/get_region"}}
    \cup {Request(m, "/<region>/get_city", region, EmptyDict) :
             m \in Methods, region \in RegionArgs}
    \cup {Request(m, "/payoff", <<>>, a) : m \in Methods, a \in ArgChoices}

HTTPExceptions == {"NotFound", "MethodNotAllowed", "BadRequestKeyError"}

StatusOf(exc) ==
    CASE exc = "NotFound" -> 404
      [] exc = "MethodNotAllowed" -> 405
      [] exc = "BadRequestKeyError" -> 400

\* adapter.match(): the endpoint of the rule, or the HTTPException raised
Match(request) ==
    IF request.rule = "" THEN [raised |-> "NotFound", endpoint |-> ""]
    ELSE IF request.method # "GET"
         THEN [raised |-> "MethodNotAllowed", endpoint |-> ""]
    ELSE [raised |-> "",
          endpoint |-> CASE request.rule = "/" -> "index"
                         [] request.rule = "/get_region" -> "get region"
                         [] request.rule = "/<region>/get_city" -> "get city"
                         [] request.rule = "/payoff" -> "lookup payoff"]

\* JinjaWrapper.render_template: the response made of a template and a context
render_template(template_name, base_context, environment) ==
    [status |-> 200, template |-> template_name,
     context |-> environment @@ base_context]

Outcome(maps, raised, rolled, value) ==
    [data_maps |-> maps, raised |-> raised, rolled |-> rolled, value |-> value]

\* RequestHandler.index
index(maps, base) ==
    Outcome(maps, "", FALSE, render_template("index.html", base, EmptyDict))

\* RequestHandler.get_region
get_region(maps, base, roll) ==
    LET out == PickRegionOf(maps, roll)
    IN  IF out.raised # ""
        THEN Outcome(out.data_maps, out.raised, TRUE, NoValue)
        ELSE Outcome(out.data_maps, "", TRUE,
                     render_template("show_region.html", base,
                                     ("region" :> out.value)))

\* RequestHandler.get_city
get_city(maps, base, region, roll) ==
    LET out == PickCityOf(maps, region, roll)
    IN  IF out.raised # ""
        THEN Outcome(out.data_maps, out.raised, TRUE, NoValue)
        ELSE Outcome(out.data_maps, "", TRUE,
                     render_template("show_city.html", base,
                                     ("region" :> region) @@
                                     ("city" :> out.value)))

\* RequestHandler.lookup_payoff
lookup_payoff(maps, base, payoff, args) ==
    IF "source_city" \notin DOMAIN args \/ "destination_city" \notin DOMAIN args
    THEN Outcome(maps, "BadRequestKeyError", FALSE, NoValue)
    ELSE LET out == GetPayoffOf(payoff, args["source_city"],
                                args["destination_city"])
         IN  IF out.raised # ""
             THEN Outcome(maps, out.raised, FALSE, NoValue)
             ELSE Outcome(maps, "", FALSE,
                          render_template("show_payoff.html", base,
                              ("source_city" :> args["source_city"]) @@
                              ("destination_city" :> args["destination_city"])
                              @@ ("payoff" :> out.value)))

\* the try block of __call__: match, then the handler of the endpoint
Dispatch(maps, payoff, base, request, roll) ==
    LET m == Match(request)
    IN  IF m.raised # "" THEN Outcome(maps, m.raised, FALSE, NoValue)
        ELSE CASE m.endpoint = "index" -> index(maps, base)
               [] m.endpoint = "get region" -> get_region(maps, base, roll)
               [] m.endpoint = "get city" ->
                      get_city(maps, base, request.region, roll)
               [] m.endpoint = "lookup payoff" ->
                      lookup_payoff(maps, base, payoff, request.args)

\* the rolls a request can draw: only get_region and get_city roll the dice
RollsOf(request) ==
    IF Match(request).endpoint \in {"get region", "get city"}
    THEN _roll_dice
    ELSE {NoRoll}

\* RailBaronApp.__call__: an HTTPException is returned as the response, any
\* other exception is logged and raised again
__call__(request) ==
    /\ pc = "serving"
    /\ \E roll \in RollsOf(request), order \in KeyOrders(payoff_dict) :
         LET base == ("all_cities" :> GetCitiesOf(payoff_dict, order))
             out  == Dispatch(data_maps, payoff_dict, base, request, roll)
         IN  /\ data_maps' = out.data_maps
             /\ result' =
                  [op |-> "__call__", args |-> <<request>>,
                   roll |-> IF out.rolled THEN roll ELSE NoRoll,
                   raised |-> IF out.raised \in HTTPExceptions THEN ""
                              ELSE out.raised,
                   value |-> IF out.raised \in HTTPExceptions
                             THEN [status |-> StatusOf(out.raised),
                                   template |-> "", context |-> EmptyDict]
                             ELSE out.value]
    /\ UNCHANGED <<pc, stream, payoff_json, payoff_dict, error>>

(* ---------------------------- specifications --------------------------- *)

Next ==
    \/ Main
    \/ pick_region
    \/ \E region \in RegionArgs : pick_city(region)
    \/ get_cities
    \/ \E source_city \in Cities, destination_city \in Cities :
          get_payoff(source_city, destination_city)
    \/ \E request \in Requests : __call__(request)

Spec == Init /\ [][Next]_vars

\* construction alone, over a wide range of record sequences
NextLoad == Main

SpecLoad == InitLoad /\ [][NextLoad]_vars

\* the payoff table alone, over a wide range of payoff sources
PayoffRequests == {r \in Requests : r.rule \in {"", "/", "/payoff"}}

NextPayoff ==
    \/ Main
    \/ get_cities
    \/ \E source_city \in Cities, destination_city \in Cities :
          get_payoff(source_city, destination_city)
    \/ \E request \in PayoffRequests : __call__(request)

SpecPayoff == InitPayoff /\ [][NextPayoff]_vars

(* ---------------------------- properties ------------------------------- *)

\* the exception kinds that are LookupErrors
LookupErrors == {"KeyError", "IndexError"}

\* what the source records say, read off the records themselves
SourceRegion(i) == strip(stream.rows[i]["region"].text)

SourceRoll(i) ==
    [odd_or_even |-> strip(stream.rows[i]["odd/even"].text),
     number |-> int(stream.rows[i]["number"].text)]

SourceName(i) == strip(stream.rows[i]["name"].text)

SourceRegions == {SourceRegion(i) : i \in 1..Len(stream.rows)}

Matching(region, roll) ==
    {i \in 1..Len(stream.rows) : SourceRegion(i) = region /\ SourceRoll(i) = roll}

LastMatching(region, roll) ==
    CHOOSE i \in Matching(region, roll) : \A j \in Matching(region, roll) : j <= i

Covered(region) == \A roll \in AllRolls : Matching(region, roll) # {}

Malformed(i) ==
    \/ Fields \ stream.fieldnames # {}
    \/ \E f \in Fields : ~stream.rows[i][f].present
    \/ ~IsIntLiteral(stream.rows[i]["number"].text)

\* s sorts before t: at the first position where they differ s has ended or
\* holds the smaller character
Precedes(s, t) ==
    \E k \in 1..(Len(t)) :
        /\ k <= Len(s) + 1
        /\ \A j \in 1..(k - 1) : s[j] = t[j]
        /\ (k = Len(s) + 1 \/ Ord(s[k]) < Ord(t[k]))

IsPick == result.op \in {"pick_region", "pick_city"}

PickedRegion == IF result.op = "pick_region" THEN area ELSE result.args[1]

\* C1: after construction the region/city table and the payoff matrix are
\* what construction made them, whatever lookups have run since.
C1_TablesFrozen ==
    pc = "serving" =>
        /\ data_maps = from_csv(stream).data_maps
        /\ payoff_dict = payoff_json

\* C2: pick_city with a region name that no source record has raises a
\* LookupError, in every state and for every roll, and returns nothing.
C2_UnknownRegionRaises ==
    (result.op = "pick_city" /\ result.args[1] \notin SourceRegions) =>
        (result.raised \in LookupErrors /\ result.value = NoValue)

C2_Witness ==
    /\ result.op = "pick_city"
    /\ result.args = <<West>>
    /\ West \notin SourceRegions
    /\ West \in DOMAIN data_maps
    /\ result.raised = "KeyError"

\* C3: when the source records define all 22 combinations for "area",
\* pick_region raises nothing; when they define all 22 for a region,
\* pick_city of that region raises nothing.
C3_Coverage ==
    (IsPick /\ Covered(PickedRegion)) => result.raised = ""

C3_Witness ==
    /\ result.op = "pick_city"
    /\ result.args = <<East>>
    /\ Covered(East)
    /\ result.roll = DiceRoll(even, 12)
    /\ result.raised = ""

\* C4: get_payoff returns the amount the source stores at
\* [source][destination] and raises a LookupError when it stores none; no
\* value comes from the opposite direction or from a default.
C4_GetPayoffExact ==
    result.op = "get_payoff" =>
        LET s == result.args[1]
            d == result.args[2]
        IN  IF s \in DOMAIN payoff_json /\ d \in DOMAIN payoff_json[s]
            THEN result.raised = "" /\ result.value = payoff_json[s][d]
            ELSE result.raised \in LookupErrors

C4_Witness ==
    /\ result.op = "get_payoff"
    /\ result.args = <<Chicago, Boston>>
    /\ Boston \in DOMAIN payoff_json
    /\ Chicago \in DOMAIN payoff_json[Boston]
    /\ result.raised = "KeyError"

\* C5: get_cities returns the source cities of the payoff source, each once,
\* in strictly ascending order, so every call returns the same sequence.
C5_GetCitiesSorted ==
    result.op = "get_cities" =>
        /\ result.raised = ""
        /\ Len(result.value) = Cardinality(DOMAIN payoff_json)
        /\ {result.value[i] : i \in 1..Len(result.value)} = DOMAIN payoff_json
        /\ \A i \in 1..(Len(result.value) - 1) :
              Precedes(result.value[i], result.value[i + 1])

C5_Witness ==
    /\ result.op = "get_cities"
    /\ result.value = <<Albany, Chicago>>

\* C6: pick_region returns the name the records store for "area" under the
\* rolled DiceRoll, pick_city(region) the name they store for region.
C6_PickReturnsStored ==
    IsPick =>
        IF Matching(PickedRegion, result.roll) # {}
        THEN /\ result.raised = ""
             /\ result.value =
                    SourceName(LastMatching(PickedRegion, result.roll))
        ELSE result.raised \in LookupErrors

C6_Witness ==
    /\ stream = RoundTripStream
    /\ result.op = "pick_city"
    /\ result.args = <<East>>
    /\ result.roll = DiceRoll(odd, 7)
    /\ result.value = Boston

\* C7: when a record has a non-integer number or lacks a field, construction
\* ends in an error that is not a LookupError and no resolver is made.
C7_FailFastParseError ==
    (pc # "startup" /\ \E i \in 1..Len(stream.rows) : Malformed(i)) =>
        (pc = "crashed" /\ error \notin LookupErrors)

\* C8: a request that names a region or a city absent from its table gets an
\* HTTP error response; no exception leaves __call__.
C8_AbsentIsRejected ==
    (/\ result.op = "__call__"
     /\ result.args[1].method = "GET"
     /\ \/ /\ result.args[1].rule = "/<region>/get_city"
           /\ result.args[1].region \notin SourceRegions
        \/ /\ result.args[1].rule = "/payoff"
           /\ DOMAIN result.args[1].args = ArgNames
           /\ \/ result.args[1].args["source_city"] \notin DOMAIN payoff_json
              \/ result.args[1].args["destination_city"] \notin
                    DOMAIN payoff_json[result.args[1].args["source_city"]])
    => (result.raised = "" /\ result.value.status \in 400..499)

\* C9: the table built from the records holds, for each region and DiceRoll
\* that some record names after trimming and conversion, the trimmed name of
\* the last such record, and holds nothing else.
C9_LastWriteWins ==
    pc = "serving" =>
        /\ DOMAIN data_maps = SourceRegions
        /\ \A region \in SourceRegions :
              /\ DOMAIN data_maps[region] =
                    {SourceRoll(i) : i \in {j \in 1..Len(stream.rows) :
                                               SourceRegion(j) = region}}
              /\ \A roll \in DOMAIN data_maps[region] :
                    data_maps[region][roll] =
                        SourceName(LastMatching(region, roll))

C9_Witness ==
    /\ pc = "serving"
    /\ Len(stream.rows) = 3
    /\ stream.rows[1] = Record(area, odd, <<"7">>, East)
    /\ stream.rows[2] = Record(East, even, <<"0", "7">>, Chicago)
    /\ stream.rows[3] = Record(<<" ">> \o area \o <<" ">>, odd \o <<"\t">>,
                               <<" ", "7", " ">>, <<" ">> \o West \o <<" ">>)
    /\ data_maps[area][DiceRoll(odd, 7)] = West

\* C10: the DiceRolls _roll_dice can produce are the 22 combinations of a
\* parity in {odd, even} and a sum in 2..12, and every roll drawn is one.
C10_RollDiceRange ==
    /\ _roll_dice = {[odd_or_even |-> p, number |-> n] :
                        p \in {odd, even}, n \in 2..12}
    /\ IsPick => /\ result.roll.odd_or_even \in {odd, even}
                 /\ result.roll.number \in 2..12

C10_Witness ==
    /\ result.op = "pick_region"
    /\ result.roll = DiceRoll(odd, 8)

====
